---- MODULE Spec2Model ----
(***************************************************************************)
(* A model of the a2a mailbox and registry server (a2a/mcp/a2a-server.py). *)
(*                                                                         *)
(* The server keeps all its state in the filesystem below ~/a2a: the       *)
(* registry document active-agents.md, one directory per agent, one .md    *)
(* file per message and one empty .md.seen file per read message.          *)
(*                                                                         *)
(* Text is modelled character by character: a string is a sequence of      *)
(* one-character strings, so that the substring tests, line splitting and  *)
(* prefix tests of the handlers are computed as Python computes them.      *)
(***************************************************************************)
EXTENDS Integers, Sequences, FiniteSets, TLC

VARIABLES
    fs,     \* the filesystem: absolute path -> [kind, data]
    clock,  \* the wall clock, in seconds since midnight UTC
    poll,   \* the poll_inbox call in progress, or Idle
    regs,   \* history: the fields each agent's latest registration supplied
    last,   \* history: the last completed call, its inputs and its result
    calls   \* the register_agent call each process has in progress, if any

vars == <<fs, clock, poll, regs, last, calls>>

----------------------------------------------------------------------------
(* Python's str operations, on sequences of characters.                    *)

NL == "\n"

\* Python's str.isspace() characters that occur in the model
Whitespace == {" ", NL, "\t"}

\* s.startswith(p)
StartsWith(s, p) == Len(s) >= Len(p) /\ SubSeq(s, 1, Len(p)) = p

\* s.endswith(p)
EndsWith(s, p) == Len(s) >= Len(p) /\ SubSeq(s, Len(s) - Len(p) + 1, Len(s)) = p

\* p in s
Contains(s, p) == \E i \in 1..(Len(s) - Len(p) + 1) : SubSeq(s, i, i + Len(p) - 1) = p

\* s.find(p, from i): the first index >= i where p occurs, 0 if there is none
RECURSIVE FindFrom(_, _, _)
FindFrom(s, p, i) ==
    IF i + Len(p) - 1 > Len(s) THEN 0
    ELSE IF SubSeq(s, i, i + Len(p) - 1) = p THEN i
    ELSE FindFrom(s, p, i + 1)

\* s.split("\n")
RECURSIVE Split(_)
Split(s) ==
    LET i == FindFrom(s, <<NL>>, 1)
    IN  IF i = 0 THEN <<s>>
        ELSE <<SubSeq(s, 1, i - 1)>> \o Split(SubSeq(s, i + 1, Len(s)))

\* "\n".join(lines)
RECURSIVE Join(_)
Join(lines) ==
    IF lines = <<>> THEN <<>>
    ELSE IF Len(lines) = 1 THEN lines[1]
    ELSE lines[1] \o <<NL>> \o Join(Tail(lines))

\* s.rstrip()
RECURSIVE RStrip(_)
RStrip(s) ==
    IF s # <<>> /\ s[Len(s)] \in Whitespace THEN RStrip(SubSeq(s, 1, Len(s) - 1))
    ELSE s

\* s.replace(old, new), old non-empty
RECURSIVE Replace(_, _, _)
Replace(s, old, new) ==
    LET i == FindFrom(s, old, 1)
    IN  IF i = 0 THEN s
        ELSE SubSeq(s, 1, i - 1) \o new
             \o Replace(SubSeq(s, i + Len(old), Len(s)), old, new)

LowerCase == <<"a", "b", "c", "d", "e", "f", "g", "h", "i", "j", "k", "l", "m",
               "n", "o", "p", "q", "r", "s", "t", "u", "v", "w", "x", "y", "z">>
UpperCase == <<"A", "B", "C", "D", "E", "F", "G", "H", "I", "J", "K", "L", "M",
               "N", "O", "P", "Q", "R", "S", "T", "U", "V", "W", "X", "Y", "Z">>
Digits == <<"0", "1", "2", "3", "4", "5", "6", "7", "8", "9">>

Range(f) == {f[i] : i \in DOMAIN f}

\* c.lower() of one character
LowerChar(c) ==
    IF c \in Range(UpperCase)
    THEN LowerCase[CHOOSE i \in DOMAIN UpperCase : UpperCase[i] = c]
    ELSE c

\* s.lower()
Lower(s) == [i \in DOMAIN s |-> LowerChar(s[i])]

\* the characters of s that are in the set keep, in order
RECURSIVE Filter(_, _)
Filter(s, keep) ==
    IF s = <<>> THEN <<>>
    ELSE (IF s[1] \in keep THEN <<s[1]>> ELSE <<>>) \o Filter(Tail(s), keep)

\* The code points of the characters the model's file names are made of, in
\* ASCII order: Python compares str by code point.
CodeOrder == <<NL, " ", "!", "-", ".", "/">> \o Digits \o <<":">> \o UpperCase
             \o <<"_">> \o LowerCase

Code(c) == CHOOSE i \in DOMAIN CodeOrder : CodeOrder[i] = c

\* s < t for Python str
RECURSIVE StrLess(_, _)
StrLess(s, t) ==
    IF t = <<>> THEN FALSE
    ELSE IF s = <<>> THEN TRUE
    ELSE IF s[1] = t[1] THEN StrLess(Tail(s), Tail(t))
    ELSE Code(s[1]) < Code(t[1])

----------------------------------------------------------------------------
(* Name validation.                                                        *)

NameChars == Range(LowerCase) \cup Range(UpperCase) \cup Range(Digits) \cup {"_", "-"}

\* AGENT_NAME_PATTERN.match(name) for the pattern ^[a-zA-Z0-9_-]+$ :
\* re.match anchors at the start, and $ matches at the end of the string and
\* also just before a newline that is the string's last character.
AGENT_NAME_PATTERN(name) ==
    LET core == IF name # <<>> /\ name[Len(name)] = NL
                THEN SubSeq(name, 1, Len(name) - 1)
                ELSE name
    IN  core # <<>> /\ \A i \in DOMAIN core : core[i] \in NameChars

\* _validate_agent_name(name) returns normally (TRUE) or raises (FALSE)
_validate_agent_name(name) == AGENT_NAME_PATTERN(name)

----------------------------------------------------------------------------
(* The clock and its two renderings.                                       *)

TwoDigits(n) == <<Digits[(n \div 10) + 1], Digits[(n % 10) + 1]>>

\* strftime("%Y-%m-%d") of the day the model runs in
Today == <<"2", "0", "2", "6", "-", "1", "1", "-", "0", "4">>

\* strftime of the time of day with separator sep between the fields
TimeOfDay(now, sep) ==
    TwoDigits((now \div 3600) % 24) \o sep \o TwoDigits((now \div 60) % 60)
    \o sep \o TwoDigits(now % 60)

\* _get_timestamp(): strftime("%Y-%m-%dT%H:%M:%SZ") of the clock reading now
_get_timestamp(now) == Today \o <<"T">> \o TimeOfDay(now, <<":">>) \o <<"Z">>

\* _get_filename_timestamp(): strftime("%Y-%m-%dT%H-%M-%SZ")
_get_filename_timestamp(now) == Today \o <<"T">> \o TimeOfDay(now, <<"-">>) \o <<"Z">>

----------------------------------------------------------------------------
(* The filesystem: a function from absolute paths (sequences of names) to   *)
(* nodes.  A file's data is its text; a directory's and a link's is empty.  *)
(* Modification times are not part of the state: no handler reads them.     *)

Dir == [kind |-> "dir", data |-> <<>>]
Link == [kind |-> "link", data |-> <<>>]
File(text) == [kind |-> "file", data |-> text]

\* Path.home()
HOME == << <<"h", "o", "m", "e">> >>

\* A2A_DIR = Path.home() / "a2a"
A2A_DIR == HOME \o << <<"a", "2", "a">> >>

\* A2A_DIR / "active-agents.md"
agents_file == A2A_DIR \o << <<"a", "c", "t", "i", "v", "e", "-", "a", "g", "e", "n",
                               "t", "s", ".", "m", "d">> >>

\* A2A_DIR / agent_name
InboxDir(agent_name) == A2A_DIR \o <<agent_name>>

\* p.exists()
Exists(F, p) == p \in DOMAIN F

\* q is p or lies below p
IsUnder(q, p) == Len(q) >= Len(p) /\ SubSeq(q, 1, Len(p)) = p

\* A faulty mkdir that creates nothing: C2 tells it from the real one
MkdirParents_forgotten(F, p) == F

\* p.mkdir(parents=True, exist_ok=True)
MkdirParents(F, p) ==
    LET new == {SubSeq(p, 1, k) : k \in 1..Len(p)} \ DOMAIN F
    IN  [q \in DOMAIN F \cup new |-> IF q \in new THEN Dir ELSE F[q]]

\* p.mkdir(exist_ok=True), the parent existing
Mkdir(F, p) == IF p \in DOMAIN F THEN F ELSE [q \in DOMAIN F \cup {p} |-> IF q = p THEN Dir ELSE F[q]]

\* A faulty write that leaves a file that is there as it is: C12 tells it from
\* the real one
WriteText_keep(F, p, text) ==
    IF p \in DOMAIN F THEN F ELSE [q \in DOMAIN F \cup {p} |-> IF q = p THEN File(text) ELSE F[q]]

\* p.write_text(text)
WriteText(F, p, text) == [q \in DOMAIN F \cup {p} |-> IF q = p THEN File(text) ELSE F[q]]

\* p.read_text()
ReadText(F, p) == F[p].data

\* A faulty touch that removes a file that is there: C3 tells it from the real one
Touch_toggle(F, p) ==
    IF p \in DOMAIN F THEN [q \in DOMAIN F \ {p} |-> F[q]]
    ELSE [q \in DOMAIN F \cup {p} |-> IF q = p THEN File(<<>>) ELSE F[q]]

\* p.touch(): creates an empty file, leaves an existing one's content
Touch(F, p) == IF p \in DOMAIN F THEN F ELSE WriteText(F, p, <<>>)

\* A faulty rmtree that removes p and leaves what lies below it: C6 tells it
\* from the real one
Rmtree_top(F, p) == [q \in DOMAIN F \ {p} |-> F[q]]

\* shutil.rmtree(p)
Rmtree(F, p) == [q \in {r \in DOMAIN F : ~IsUnder(r, p)} |-> F[q]]

\* PurePath.suffix of a file name
Suffix(name) ==
    LET dots == {i \in DOMAIN name : name[i] = "."}
        i == IF dots = {} THEN 0 ELSE CHOOSE j \in dots : \A k \in dots : k <= j
    IN  IF 1 < i /\ i < Len(name) THEN SubSeq(name, i, Len(name)) ELSE <<>>

\* p.with_suffix(suffix)
WithSuffix(p, suffix) ==
    LET name == p[Len(p)]
        stem == SubSeq(name, 1, Len(name) - Len(Suffix(name)))
    IN  SubSeq(p, 1, Len(p) - 1) \o <<stem \o suffix>>

MD == <<".", "m", "d">>
MD_SEEN == <<".", "m", "d", ".", "s", "e", "e", "n">>

\* sorted(d.glob("*.md")): the entries of directory d whose name ends in .md,
\* in ascending order of name
GlobMd(F, d) == {p \in DOMAIN F : Len(p) = Len(d) + 1 /\ IsUnder(p, d) /\ EndsWith(p[Len(p)], MD)}

\* A faulty sort, largest name first: C17 tells it from the real one
RECURSIVE Sorted_descending(_)
Sorted_descending(S) ==
    IF S = {} THEN <<>>
    ELSE LET m == CHOOSE p \in S : \A q \in S \ {p} : StrLess(q[Len(q)], p[Len(p)])
         IN  <<m>> \o Sorted_descending(S \ {m})

\* sorted(...) of paths in one directory
RECURSIVE Sorted(_)
Sorted(S) ==
    IF S = {} THEN <<>>
    ELSE LET m == CHOOSE p \in S : \A q \in S \ {p} : StrLess(p[Len(p)], q[Len(q)])
         IN  <<m>> \o Sorted(S \ {m})

----------------------------------------------------------------------------
(* The registry document.                                                  *)

DocHeading == <<"#", " ", "A", "c", "t", "i", "v", "e", " ", "A", "g", "e", "n", "t", "s", NL, NL>>
H2 == <<"#", "#", " ">>
Bold == <<"*", "*">>
CapsKey == <<"*", "*", "C", "a", "p", "a", "b", "i", "l", "i", "t", "i", "e", "s", ":", "*", "*">>
DirKey == <<"*", "*", "W", "o", "r", "k", "i", "n", "g", " ", "i", "n", ":", "*", "*">>
StartedKey == <<"*", "*", "S", "t", "a", "r", "t", "e", "d", ":", "*", "*">>
StatusLine == <<"*", "*", "S", "t", "a", "t", "u", "s", ":", "*", "*", " ", "a", "c", "t", "i", "v", "e">>

\* agent_header = f"## {agent_name}"
AgentHeader(agent_name) == H2 \o agent_name

\* The loop that extracts the existing values of the record under header:
\* from line i on, acc holding in_section and the values found so far.
RECURSIVE ExistingValues(_, _, _, _)
ExistingValues(lines, header, i, acc) ==
    IF i > Len(lines) THEN acc
    ELSE LET line == lines[i]
         IN  IF line = header
             THEN ExistingValues(lines, header, i + 1,
                      [acc EXCEPT !.in_section = TRUE,
                                  !.desc = IF i + 2 <= Len(lines) /\ ~StartsWith(lines[i + 2], Bold)
                                           THEN lines[i + 2] ELSE @])
             ELSE IF acc.in_section
             THEN IF StartsWith(line, H2) THEN acc
                  ELSE IF StartsWith(line, CapsKey)
                  THEN ExistingValues(lines, header, i + 1,
                           [acc EXCEPT !.caps = Replace(line, CapsKey \o <<" ">>, <<>>)])
                  ELSE IF StartsWith(line, DirKey)
                  THEN ExistingValues(lines, header, i + 1,
                           [acc EXCEPT !.dir = Replace(line, DirKey \o <<" ">>, <<>>)])
                  ELSE ExistingValues(lines, header, i + 1, acc)
             ELSE ExistingValues(lines, header, i + 1, acc)

\* The loop that drops the section under header: a line equal to header starts
\* skipping, the next line starting with "## " ends it.
RECURSIVE RemoveSection(_, _, _)
RemoveSection(lines, header, skip) ==
    IF lines = <<>> THEN <<>>
    ELSE LET line == Head(lines)
             skip2 == IF skip /\ StartsWith(line, H2) THEN FALSE ELSE skip
         IN  IF line = header THEN RemoveSection(Tail(lines), header, TRUE)
             ELSE (IF skip2 THEN <<>> ELSE <<line>>) \o RemoveSection(Tail(lines), header, skip2)

\* while new_lines and new_lines[-1] == "": new_lines.pop()
RECURSIVE PopBlank(_)
PopBlank(lines) ==
    IF lines # <<>> /\ lines[Len(lines)] = <<>> THEN PopBlank(SubSeq(lines, 1, Len(lines) - 1))
    ELSE lines

\* The loop that keeps one blank line of each run of blank lines
RECURSIVE CollapseBlank(_, _)
CollapseBlank(lines, prev_blank) ==
    IF lines = <<>> THEN <<>>
    ELSE LET is_blank == Head(lines) = <<>>
         IN  (IF is_blank /\ prev_blank THEN <<>> ELSE <<Head(lines)>>)
             \o CollapseBlank(Tail(lines), is_blank)

\* The record appended by a registration
Entry(agent_name, description, capabilities, working_dir, timestamp) ==
    <<NL, NL>> \o AgentHeader(agent_name) \o <<NL, NL>>
    \o description \o <<NL, NL>>
    \o CapsKey \o <<" ">> \o capabilities \o <<NL>>
    \o DirKey \o <<" ">> \o working_dir \o <<NL>>
    \o StartedKey \o <<" ">> \o timestamp \o <<NL>>
    \o StatusLine \o <<NL>>

\* The entries of the change list: f"{field}: '{old}' -> '{new}'"
Change(field, old, new) == <<field, old, new>>

\* The changed fields, in the order the code appends them
Changes(old, description, capabilities, working_dir) ==
    (IF old.desc # description THEN <<Change("description", old.desc, description)>> ELSE <<>>)
    \o (IF old.caps # capabilities THEN <<Change("capabilities", old.caps, capabilities)>> ELSE <<>>)
    \o (IF old.dir # working_dir THEN <<Change("working-dir", old.dir, working_dir)>> ELSE <<>>)

\* register_agent up to content = agents_file.read_text(): the directories
\* and the document it makes sure of, the timestamp and the text it has read
register_agent_read(F, now, agent_name) ==
    IF ~_validate_agent_name(agent_name)
    THEN [fs |-> F, err |-> "InvalidName", timestamp |-> <<>>, content |-> <<>>]
    ELSE
    LET F1 == Mkdir(MkdirParents(F, A2A_DIR), InboxDir(agent_name))
        F2 == IF ~Exists(F1, agents_file) THEN WriteText(F1, agents_file, DocHeading) ELSE F1
    IN  [fs |-> F2, err |-> "none", timestamp |-> _get_timestamp(now),
         content |-> ReadText(F2, agents_file)]

\* From the text read to the text written: the change list, the old entry
\* removed, the new entry appended
NewContent(content, timestamp, agent_name, description, capabilities, working_dir) ==
    LET agent_header == AgentHeader(agent_name)
        found == Contains(content, agent_header)
        lines == Split(content)
        old == ExistingValues(lines, agent_header, 1,
                   [in_section |-> FALSE, desc |-> <<>>, caps |-> <<>>, dir |-> <<>>])
        changes == IF found THEN Changes(old, description, capabilities, working_dir) ELSE <<>>
        content2 == IF found
                    THEN Join(PopBlank(RemoveSection(lines, agent_header, FALSE)))
                    ELSE content
    IN  [content |-> RStrip(content2)
                     \o Entry(agent_name, description, capabilities, working_dir, timestamp),
         changes |-> changes]

\* A faulty second half that reads the document again before it writes: C11
\* tells it from the real one
register_agent_write_reread(F, content, timestamp, agent_name, description, capabilities, working_dir) ==
    LET n == NewContent(ReadText(F, agents_file), timestamp, agent_name, description,
                        capabilities, working_dir)
    IN  [fs |-> WriteText(F, agents_file, n.content),
         err |-> "none",
         kind |-> IF n.changes # <<>> THEN "Updated" ELSE "Registered",
         changes |-> n.changes]

\* register_agent from there on: the document written from the text read
\* earlier, whatever the document holds by now, and what the call returns
register_agent_write(F, content, timestamp, agent_name, description, capabilities, working_dir) ==
    LET n == NewContent(content, timestamp, agent_name, description, capabilities,
                        working_dir)
    IN  [fs |-> WriteText(F, agents_file, n.content),
         err |-> "none",
         kind |-> IF n.changes # <<>> THEN "Updated" ELSE "Registered",
         changes |-> n.changes]

\* register_agent with no other call in between: the filesystem it leaves and
\* what it returns
register_agent(F, now, agent_name, description, capabilities, working_dir) ==
    LET r == register_agent_read(F, now, agent_name)
    IN  IF r.err # "none"
        THEN [fs |-> F, err |-> r.err, kind |-> "", changes |-> <<>>]
        ELSE register_agent_write(r.fs, r.content, r.timestamp, agent_name, description,
                                  capabilities, working_dir)

\* unregister_agent: the filesystem it leaves and what it returns
unregister_agent(F, agent_name, delete_inbox) ==
    IF ~_validate_agent_name(agent_name)
    THEN [fs |-> F, err |-> "InvalidName", deleted |-> FALSE]
    ELSE IF ~Exists(F, agents_file)
    THEN [fs |-> F, err |-> "NotRegistered", deleted |-> FALSE]
    ELSE
    LET content == ReadText(F, agents_file)
        agent_header == AgentHeader(agent_name)
        new_lines == PopBlank(RemoveSection(Split(content), agent_header, FALSE))
        cleaned_lines == CollapseBlank(new_lines, FALSE)
        F1 == WriteText(F, agents_file, Join(cleaned_lines) \o <<NL>>)
        inbox_dir == InboxDir(agent_name)
        remove == delete_inbox /\ Exists(F1, inbox_dir)
    IN  IF ~Contains(content, agent_header)
        THEN [fs |-> F, err |-> "NotRegistered", deleted |-> FALSE]
        ELSE [fs |-> IF remove THEN Rmtree(F1, inbox_dir) ELSE F1,
              err |-> "none",
              deleted |-> remove]

\* list_agents: the text it returns
NoAgentsYet == <<"No agents registered yet">>

list_agents(F) == IF ~Exists(F, agents_file) THEN NoAgentsYet ELSE ReadText(F, agents_file)

----------------------------------------------------------------------------
(* Mailboxes.                                                              *)

\* The length the subject slug is cut to
SlugLimit == 50

\* subject.lower().replace(" ", "-"), then re.sub(r"[^a-z0-9-]", "", .)[:50]
SubjectSlug(subject) ==
    LET dashed == Replace(Lower(subject), <<" ">>, <<"-">>)
        kept == Filter(dashed, Range(LowerCase) \cup Range(Digits) \cup {"-"})
    IN  SubSeq(kept, 1, IF Len(kept) < SlugLimit THEN Len(kept) ELSE SlugLimit)

\* filename = f"{filename_timestamp}-{subject_slug}.md"
MessageFilename(filename_timestamp, subject) ==
    filename_timestamp \o <<"-">> \o SubjectSlug(subject) \o MD

\* The message text with its metadata block
MessageContent(from_agent, to_agent, timestamp, subject, expects_reply, body) ==
    <<"-", "-", "-", NL>>
    \o <<"f", "r", "o", "m", ":", " ">> \o from_agent \o <<NL>>
    \o <<"t", "o", ":", " ">> \o to_agent \o <<NL>>
    \o <<"t", "i", "m", "e", "s", "t", "a", "m", "p", ":", " ">> \o timestamp \o <<NL>>
    \o <<"s", "u", "b", "j", "e", "c", "t", ":", " ">> \o subject \o <<NL>>
    \o <<"e", "x", "p", "e", "c", "t", "s", "-", "r", "e", "p", "l", "y", ":", " ">>
    \o (IF expects_reply THEN <<"t", "r", "u", "e">> ELSE <<"f", "a", "l", "s", "e">>) \o <<NL>>
    \o <<"-", "-", "-", NL, NL>>
    \o body \o <<NL>>

\* send_message: the filesystem it leaves and what it returns.  The clock is
\* read twice, by _get_timestamp() at now1 and by _get_filename_timestamp()
\* at now2 >= now1.
send_message(F, now1, now2, from_agent, to_agent, subject, expects_reply, body) ==
    IF ~_validate_agent_name(from_agent) \/ ~_validate_agent_name(to_agent)
    THEN [fs |-> F, err |-> "InvalidName", warning |-> FALSE, path |-> <<>>]
    ELSE
    LET recipient_dir == InboxDir(to_agent)
        warning == ~Exists(F, recipient_dir)
        F1 == IF warning THEN MkdirParents(F, recipient_dir) ELSE F
        timestamp == _get_timestamp(now1)
        filename_timestamp == _get_filename_timestamp(now2)
        filepath == recipient_dir \o <<MessageFilename(filename_timestamp, subject)>>
        message_content == MessageContent(from_agent, to_agent, timestamp, subject,
                                          expects_reply, body)
    IN  [fs |-> WriteText(F1, filepath, message_content),
         err |-> "none",
         warning |-> warning,
         path |-> filepath]

\* msg_file has no read marker beside it
Unread(F, msg_file) == ~Exists(F, WithSuffix(msg_file, MD_SEEN))

\* The lines list_inbox appends: the messages in order, the read ones left out
\* unless include_read
RECURSIVE InboxLines(_, _, _)
InboxLines(F, messages, include_read) ==
    IF messages = <<>> THEN <<>>
    ELSE LET msg_file == Head(messages)
             is_read == ~Unread(F, msg_file)
         IN  (IF is_read /\ ~include_read THEN <<>>
              ELSE <<[name |-> msg_file[Len(msg_file)], read |-> is_read]>>)
             \o InboxLines(F, Tail(messages), include_read)

\* list_inbox: what it returns.  placeholder is "none" for a listing.
list_inbox(F, agent_name, include_read) ==
    IF ~_validate_agent_name(agent_name)
    THEN [err |-> "InvalidName", placeholder |-> "none", items |-> <<>>]
    ELSE
    LET inbox_dir == InboxDir(agent_name)
        messages == Sorted(GlobMd(F, inbox_dir))
        items == InboxLines(F, messages, include_read)
    IN  IF ~Exists(F, inbox_dir)
        THEN [err |-> "InboxNotFound", placeholder |-> "none", items |-> <<>>]
        ELSE IF messages = <<>>
        THEN [err |-> "none", placeholder |-> "No messages", items |-> <<>>]
        ELSE IF items = <<>>
        THEN [err |-> "none",
              placeholder |-> IF include_read THEN "No messages" ELSE "No unread messages",
              items |-> <<>>]
        ELSE [err |-> "none", placeholder |-> "none", items |-> items]

----------------------------------------------------------------------------
(* Read markers.                                                           *)

\* The server's working directory, against which relative paths resolve
CWD == HOME

\* Directories outside the mailbox root, and the symbolic link an outsider may
\* have planted below the root: A2A_DIR/ln -> /etc
ETC == << <<"e", "t", "c">> >>
PASSWD == ETC \o << <<"p", "a", "s", "s", "w", "d">> >>
LN == A2A_DIR \o << <<"l", "n">> >>
LinkTarget(p) == ETC

UP == <<".", ".">>

\* A faulty realpath that removes ".." and does not follow links: C5 tells it
\* from the real one
RECURSIVE RealPath_lexical(_, _, _)
RealPath_lexical(F, cur, rest) ==
    IF rest = <<>> THEN cur
    ELSE IF Head(rest) = UP
    THEN RealPath_lexical(F, SubSeq(cur, 1, Len(cur) - 1), Tail(rest))
    ELSE RealPath_lexical(F, cur \o <<Head(rest)>>, Tail(rest))

\* os.path.realpath, not strict: cur is resolved, rest is still to walk
RECURSIVE RealPath(_, _, _)
RealPath(F, cur, rest) ==
    IF rest = <<>> THEN cur
    ELSE LET c == Head(rest)
             nxt == cur \o <<c>>
         IN  IF c = UP
             THEN RealPath(F, SubSeq(cur, 1, Len(cur) - 1), Tail(rest))
             ELSE IF nxt \in DOMAIN F /\ F[nxt].kind = "link"
             THEN RealPath(F, <<>>, LinkTarget(nxt) \o Tail(rest))
             ELSE RealPath(F, nxt, Tail(rest))

\* Path(message_path).resolve(): message_path is [absolute, parts]
Resolve(F, message_path) ==
    RealPath(F, <<>>, (IF message_path.absolute THEN <<>> ELSE CWD) \o message_path.parts)

\* mark_read: the filesystem it leaves and what it returns
mark_read(F, message_path) ==
    LET msg_path == Resolve(F, message_path)
        a2a_resolved == RealPath(F, <<>>, A2A_DIR)
        seen_path == WithSuffix(msg_path, MD_SEEN)
    IN  IF ~IsUnder(msg_path, a2a_resolved)
        THEN [fs |-> F, err |-> "PathEscape", path |-> msg_path]
        ELSE IF ~Exists(F, msg_path)
        THEN [fs |-> F, err |-> "NotFound", path |-> msg_path]
        ELSE IF Suffix(msg_path[Len(msg_path)]) # MD
        THEN [fs |-> F, err |-> "InvalidKind", path |-> msg_path]
        ELSE [fs |-> Touch(F, seen_path), err |-> "none", path |-> msg_path]

----------------------------------------------------------------------------
(* Polling.                                                                *)

\* Faulty checks that let any max_iterations and delay_seconds pass: C13 tells
\* them from the real ones
poll_inbox_check_lenient(F, agent_name, max_iterations, delay_seconds) ==
    IF ~_validate_agent_name(agent_name) THEN "InvalidName"
    ELSE IF ~Exists(F, InboxDir(agent_name)) THEN "InboxNotFound"
    ELSE "none"

\* The checks poll_inbox makes before its loop: the error raised, or "none"
poll_inbox_check(F, agent_name, max_iterations, delay_seconds) ==
    IF ~_validate_agent_name(agent_name) THEN "InvalidName"
    ELSE IF max_iterations < 1 THEN "InvalidArgument"
    ELSE IF delay_seconds < 0 THEN "InvalidArgument"
    ELSE IF ~Exists(F, InboxDir(agent_name)) THEN "InboxNotFound"
    ELSE "none"

\* A faulty inner loop that takes the first message, read or not: C4 tells it
\* from the real one
FirstUnread_any(F, messages) == IF messages = <<>> THEN <<>> ELSE Head(messages)

\* A faulty inner loop that takes the last unread message: C15 tells it from
\* the real one
RECURSIVE FirstUnread_last(_, _)
FirstUnread_last(F, messages) ==
    IF messages = <<>> THEN <<>>
    ELSE IF Unread(F, messages[Len(messages)]) THEN messages[Len(messages)]
    ELSE FirstUnread_last(F, SubSeq(messages, 1, Len(messages) - 1))

\* The inner loop of one attempt: the first message of sorted(glob("*.md"))
\* without a read marker, or <<>> if every message has one
RECURSIVE FirstUnread(_, _)
FirstUnread(F, messages) ==
    IF messages = <<>> THEN <<>>
    ELSE IF Unread(F, Head(messages)) THEN Head(messages)
    ELSE FirstUnread(F, Tail(messages))

\* A faulty return that leaves a read marker beside the message it hands
\* over: C22 tells it from the real one
ReturnMessage_marking(F, msg_file) ==
    [fs |-> Touch(F, WithSuffix(msg_file, MD_SEEN)), content |-> ReadText(F, msg_file)]

\* The return of an attempt that found msg_file unread: its text is read and
\* handed over, and no file is written
ReturnMessage(F, msg_file) == [fs |-> F, content |-> ReadText(F, msg_file)]

\* A faulty test that sleeps after every attempt: C16 tells it from the real one
SleepUnlessLast_always(i, max_iterations) == TRUE

\* if i < max_iterations: time.sleep(delay_seconds)
SleepUnlessLast(i, max_iterations) == i < max_iterations

Idle == [pc |-> "idle", agent_name |-> <<>>, max_iterations |-> 0, delay_seconds |-> 0,
         i |-> 0, wake |-> 0, scans |-> <<>>, sleeps |-> 0]

----------------------------------------------------------------------------
(* What the properties observe of a state, defined on the files alone.     *)

\* The lines of the registry document, <<>> if there is none
DocLines(F) == IF Exists(F, agents_file) THEN Split(F[agents_file].data) ELSE <<>>

\* The lines of the document that start a record named exactly n
RecordStarts(F, n) ==
    LET lines == DocLines(F)
        header == H2 \o n
    IN  {i \in DOMAIN lines : lines[i] = header}

\* n has a record in the document
HasRecord(F, n) == RecordStarts(F, n) # {}

\* The messages in n's mailbox and those of them without a read marker
Messages(F, n) ==
    {p \in DOMAIN F : Len(p) = Len(A2A_DIR) + 2 /\ SubSeq(p, 1, Len(p) - 1) = A2A_DIR \o <<n>>
                      /\ F[p].kind = "file" /\ EndsWith(p[Len(p)], MD)}

HasMarker(F, p) == (SubSeq(p, 1, Len(p) - 1) \o <<p[Len(p)] \o <<".", "s", "e", "e", "n">> >>) \in DOMAIN F

UnreadMessages(F, n) == {p \in Messages(F, n) : ~HasMarker(F, p)}

----------------------------------------------------------------------------
(* The calls.  Each handler runs to completion in one step, except         *)
(* poll_inbox, whose scans and sleeps other processes' calls interleave    *)
(* with.  last records the call's inputs, its result and what held before  *)
(* it; regs records what each agent last registered with.                  *)

\* The clock does not run past MaxClock, and a poll makes at most MaxIter attempts
MaxClock == 60
MaxIter == 2

AgentA == <<"a">>
AgentAB == <<"a", "b">>
BadName == <<"a", "/">>
AllNames == {AgentA, AgentAB, BadName}

\* A name that ends in a newline
NewlineName == <<"a", NL>>

\* regs[n]: whether n registered and was not unregistered since, with which
\* fields, and whether its mailbox was deleted with its record and nothing was
\* registered or sent under n since
NoReg == [known |-> FALSE, desc |-> <<>>, caps |-> <<>>, dir |-> <<>>, inbox_deleted |-> FALSE]

Register(agent_name, description, capabilities, working_dir) ==
    LET r == register_agent(fs, clock, agent_name, description, capabilities, working_dir)
    IN  /\ fs' = r.fs
        /\ regs' = IF r.err = "none"
                   THEN [regs EXCEPT ![agent_name] =
                            [known |-> TRUE, desc |-> description,
                             caps |-> capabilities, dir |-> working_dir,
                             inbox_deleted |-> FALSE]]
                   ELSE regs
        /\ last' = [op |-> "register_agent", agent_name |-> agent_name,
                    description |-> description, capabilities |-> capabilities,
                    working_dir |-> working_dir,
                    err |-> r.err, kind |-> r.kind, changes |-> r.changes,
                    existed |-> HasRecord(fs, agent_name),
                    previous |-> regs[agent_name],
                    fs_changed |-> r.fs # fs,
                    doc_before |-> DocLines(fs)]
        /\ UNCHANGED <<clock, poll, calls>>

\* Two server processes share ~/a2a
Procs == {"p", "q"}

NoCallInProgress == [pc |-> "idle"]

\* Process p calls register_agent and gets as far as having read the document
\* (lines 59-73); no lock is taken
RegisterRead(p, agent_name, description, capabilities, working_dir) ==
    LET r == register_agent_read(fs, clock, agent_name)
    IN  /\ calls[p].pc = "idle"
        /\ r.err = "none"
        /\ fs' = r.fs
        /\ calls' = [calls EXCEPT ![p] =
                        [pc |-> "read", agent_name |-> agent_name,
                         description |-> description, capabilities |-> capabilities,
                         working_dir |-> working_dir,
                         timestamp |-> r.timestamp, content |-> r.content,
                         existed |-> HasRecord(fs, agent_name),
                         others |-> {n \in AllNames \ {agent_name} : HasRecord(r.fs, n)},
                         overtaken |-> {}]]
        /\ UNCHANGED <<clock, poll, regs, last>>

\* Process p writes the document from what it read and returns (lines 75-143).
\* History: others are the other agents with a record when p read, overtaken
\* the agents registered by calls that wrote after p read.
RegisterWrite(p) ==
    LET c == calls[p]
        r == register_agent_write(fs, c.content, c.timestamp, c.agent_name, c.description,
                                  c.capabilities, c.working_dir)
    IN  /\ c.pc = "read"
        /\ fs' = r.fs
        /\ calls' = [q \in Procs |->
                        IF q = p THEN NoCallInProgress
                        ELSE IF calls[q].pc = "read"
                        THEN [calls[q] EXCEPT !.overtaken = @ \cup {c.agent_name}]
                        ELSE calls[q]]
        /\ regs' = [regs EXCEPT ![c.agent_name] =
                       [known |-> TRUE, desc |-> c.description, caps |-> c.capabilities,
                        dir |-> c.working_dir, inbox_deleted |-> FALSE]]
        /\ last' = [op |-> "register_agent", agent_name |-> c.agent_name,
                    description |-> c.description, capabilities |-> c.capabilities,
                    working_dir |-> c.working_dir,
                    err |-> r.err, kind |-> r.kind, changes |-> r.changes,
                    existed |-> c.existed, previous |-> regs[c.agent_name],
                    others |-> c.others, overtaken |-> c.overtaken]
        /\ UNCHANGED <<clock, poll>>

Unregister(agent_name, delete_inbox) ==
    LET r == unregister_agent(fs, agent_name, delete_inbox)
    IN  /\ fs' = r.fs
        /\ regs' = IF r.err = "none"
                   THEN [regs EXCEPT ![agent_name] =
                            [NoReg EXCEPT !.inbox_deleted =
                                delete_inbox /\ HasRecord(fs, agent_name)]]
                   ELSE regs
        /\ last' = [op |-> "unregister_agent", agent_name |-> agent_name,
                    delete_inbox |-> delete_inbox,
                    err |-> r.err, deleted |-> r.deleted,
                    existed |-> HasRecord(fs, agent_name),
                    had_inbox |-> Exists(fs, InboxDir(agent_name)),
                    had_marker |-> \E p \in Messages(fs, agent_name) : HasMarker(fs, p),
                    fs_changed |-> r.fs # fs,
                    doc_before |-> DocLines(fs)]
        /\ UNCHANGED <<clock, poll, calls>>

ListAgents ==
    /\ last' = [op |-> "list_agents", text |-> list_agents(fs)]
    /\ UNCHANGED <<fs, clock, poll, regs, calls>>

\* The clock may reach the next second between the call's two readings of it
Send(from_agent, to_agent, subject, expects_reply, body, elapsed) ==
    LET r == send_message(fs, clock, clock + elapsed, from_agent, to_agent, subject,
                          expects_reply, body)
    IN  /\ clock + elapsed <= MaxClock
        /\ fs' = r.fs
        /\ clock' = IF r.err = "none" THEN clock + elapsed ELSE clock
        /\ last' = [op |-> "send_message", from_agent |-> from_agent, to_agent |-> to_agent,
                    subject |-> subject, expects_reply |-> expects_reply, body |-> body,
                    err |-> r.err, warning |-> r.warning, path |-> r.path,
                    had_record |-> HasRecord(fs, to_agent),
                    had_inbox |-> Exists(fs, InboxDir(to_agent)),
                    had_file |-> Exists(fs, r.path),
                    old_content |-> IF Exists(fs, r.path) THEN fs[r.path].data ELSE <<>>,
                    had_marker |-> r.path # <<>> /\ HasMarker(fs, r.path),
                    count_before |-> Cardinality(Messages(fs, to_agent)),
                    fs_changed |-> r.fs # fs]
        /\ regs' = IF r.err = "none" /\ to_agent \in DOMAIN regs
                   THEN [regs EXCEPT ![to_agent].inbox_deleted = FALSE]
                   ELSE regs
        /\ UNCHANGED <<poll, calls>>

MarkRead(message_path) ==
    LET r == mark_read(fs, message_path)
    IN  /\ fs' = r.fs
        /\ last' = [op |-> "mark_read", message_path |-> message_path,
                    err |-> r.err, path |-> r.path,
                    was_message |-> message_path.absolute
                                    /\ \E n \in AllNames : message_path.parts \in Messages(fs, n),
                    was_marked |-> message_path.parts # <<>> /\ HasMarker(fs, message_path.parts),
                    fs_changed |-> r.fs # fs]
        /\ UNCHANGED <<clock, poll, regs, calls>>

ListInbox(agent_name, include_read) ==
    LET r == list_inbox(fs, agent_name, include_read)
    IN  /\ last' = [op |-> "list_inbox", agent_name |-> agent_name,
                    include_read |-> include_read,
                    err |-> r.err, placeholder |-> r.placeholder, items |-> r.items]
        /\ UNCHANGED <<fs, clock, poll, regs, calls>>

\* What a poll_inbox call that has ended returned.  History: previous is the
\* message returned by the call that ended last before this one, if that was a
\* poll_inbox of the same mailbox, and <<>> otherwise.
PollResult(err, found, attempts, path, content) ==
    [op |-> "poll_inbox", agent_name |-> poll.agent_name,
     max_iterations |-> poll.max_iterations, delay_seconds |-> poll.delay_seconds,
     err |-> err, found |-> found, attempts |-> attempts, path |-> path,
     content |-> content, scans |-> poll.scans, sleeps |-> poll.sleeps,
     previous |-> IF /\ last.op = "poll_inbox" /\ last.err = "none" /\ last.found
                     /\ last.agent_name = poll.agent_name
                  THEN last.path ELSE <<>>]

\* poll_inbox is called: its checks, up to the loop
PollCall(agent_name, max_iterations, delay_seconds) ==
    LET err == poll_inbox_check(fs, agent_name, max_iterations, delay_seconds)
    IN  /\ poll.pc = "idle"
        /\ IF err = "none"
           THEN /\ poll' = [Idle EXCEPT !.pc = "scan", !.agent_name = agent_name,
                                        !.max_iterations = max_iterations,
                                        !.delay_seconds = delay_seconds, !.i = 1]
                /\ last' = last
           ELSE /\ poll' = poll
                /\ last' = [op |-> "poll_inbox", agent_name |-> agent_name,
                            max_iterations |-> max_iterations,
                            delay_seconds |-> delay_seconds,
                            err |-> err, found |-> FALSE, attempts |-> 0, path |-> <<>>,
                            content |-> <<>>, scans |-> <<>>, sleeps |-> 0,
                            had_inbox |-> Exists(fs, InboxDir(agent_name))]
        /\ UNCHANGED <<fs, clock, regs, calls>>

\* One attempt of the loop: the scan, then the return or the start of the sleep.
\* scans notes whether the mailbox held an unread message at each scan.
PollScan ==
    LET inbox_dir == InboxDir(poll.agent_name)
        msg_file == FirstUnread(fs, Sorted(GlobMd(fs, inbox_dir)))
        seen == poll.scans \o <<UnreadMessages(fs, poll.agent_name) # {}>>
        r == ReturnMessage(fs, msg_file)
    IN  /\ poll.pc = "scan"
        /\ IF msg_file # <<>>
           THEN /\ last' = [PollResult("none", TRUE, poll.i, msg_file, r.content)
                               EXCEPT !.scans = seen]
                /\ poll' = Idle
                /\ fs' = r.fs
           ELSE IF SleepUnlessLast(poll.i, poll.max_iterations)
           THEN /\ poll' = [poll EXCEPT !.pc = "sleep", !.wake = clock + poll.delay_seconds,
                                        !.scans = seen, !.sleeps = @ + 1]
                /\ last' = last
                /\ fs' = fs
           ELSE /\ last' = [PollResult("none", FALSE, poll.max_iterations, <<>>, <<>>)
                               EXCEPT !.scans = seen]
                /\ poll' = Idle
                /\ fs' = fs
        /\ UNCHANGED <<clock, regs, calls>>

\* time.sleep(delay_seconds) returns
PollWake ==
    /\ poll.pc = "sleep"
    /\ clock >= poll.wake
    /\ poll' = [poll EXCEPT !.pc = "scan", !.i = @ + 1, !.wake = 0]
    /\ UNCHANGED <<fs, clock, regs, last, calls>>

\* A second passes
Tick ==
    /\ clock < MaxClock
    /\ clock' = clock + 1
    /\ UNCHANGED <<fs, poll, regs, last, calls>>

----------------------------------------------------------------------------
(* The initial state: an existing home directory and nothing below ~/a2a.  *)

FsPlain == [p \in {HOME, ETC, PASSWD} |-> IF p = PASSWD THEN File(<<"r", "o", "o", "t">>) ELSE Dir]

\* The same with ~/a2a present and a link to /etc planted in it
\* A markdown file outside the mailbox root
NOTES == ETC \o << <<"n", ".", "m", "d">> >>

FsPlanted == [p \in {HOME, ETC, PASSWD, NOTES, A2A_DIR, LN} |->
                 IF p = PASSWD THEN File(<<"r", "o", "o", "t">>)
                 ELSE IF p = NOTES THEN File(<<"n">>)
                 ELSE IF p = LN THEN Link ELSE Dir]

NoCall == [op |-> "none", err |-> "none"]

Init ==
    /\ fs = FsPlain
    /\ clock = 59
    /\ poll = Idle
    /\ regs = [n \in AllNames |-> NoReg]
    /\ calls = [p \in Procs |-> NoCallInProgress]
    /\ last = NoCall

InitPlanted ==
    /\ fs = FsPlanted
    /\ clock = 59
    /\ poll = Idle
    /\ regs = [n \in AllNames |-> NoReg]
    /\ calls = [p \in Procs |-> NoCallInProgress]
    /\ last = NoCall

----------------------------------------------------------------------------
(* The inputs the calls are explored with.                                 *)

DescX == <<"x">>
DescBold == <<"*", "*", "y">>
DescEmpty == <<>>
CapsC == <<"c">>
CapsD == <<"d">>
DirW == <<"/", "w">>
DirV == <<"/", "v">>

\* A description that is a markdown heading, and reads as AgentA's header
DescHeading == <<"#", "#", " ", "a">>

\* <<description, capabilities, working_dir>>
RegInputs == {<<DescX, CapsC, DirW>>, <<DescX, CapsD, DirW>>, <<DescX, CapsC, DirV>>,
              <<DescBold, CapsC, DirW>>, <<DescEmpty, CapsC, DirW>>}

SubjectHi == <<"H", "i">>
\* A subject whose slug sorts before that of SubjectHi
SubjectGo == <<"G", "o">>
\* Another subject with the slug of SubjectHi
SubjectHiBang == <<"h", "i", "!">>
BodyB == <<"b">>

Abs(p) == [absolute |-> TRUE, parts |-> p]
Rel(p) == [absolute |-> FALSE, parts |-> p]

\* The paths of the messages now in the mailboxes
MessagePaths == {Abs(p) : p \in Messages(fs, AgentA) \cup Messages(fs, AgentAB)}

----------------------------------------------------------------------------
(* The registry document: registrations with every kind of field change,   *)
(* removals that keep the mailboxes, the clock standing still.             *)

NextRegistry ==
    \/ \E n \in AllNames, f \in RegInputs : Register(n, f[1], f[2], f[3])
    \/ \E n \in AllNames : Unregister(n, FALSE)
    \/ ListAgents

SpecRegistry == Init /\ [][NextRegistry]_vars

----------------------------------------------------------------------------
(* The mailboxes beside the registry: deliveries, read markers, listings   *)
(* and removals with and without the mailbox, the clock standing still.    *)

NextInbox ==
    \/ \E n \in {AgentA, AgentAB} : Register(n, DescX, CapsC, DirW)
    \/ \E n \in {AgentA, AgentAB}, d \in BOOLEAN : Unregister(n, d)
    \/ \E t \in {AgentA, AgentAB} : Send(AgentA, t, SubjectHi, TRUE, BodyB, 0)
    \/ \E p \in MessagePaths : MarkRead(p)
    \/ \E n \in {AgentA, AgentAB}, i \in BOOLEAN : ListInbox(n, i)

SpecInbox == Init /\ [][NextInbox]_vars

----------------------------------------------------------------------------
(* A poll of one mailbox, with no pause between its attempts, while other  *)
(* calls create the mailbox, deliver to it and mark its messages.          *)

NextPoll ==
    \/ Register(AgentA, DescX, CapsC, DirW)
    \/ Send(AgentA, AgentA, SubjectHi, TRUE, BodyB, 0)
    \/ \E p \in MessagePaths : MarkRead(p)
    \/ \E k \in 0..MaxIter, d \in {-1, 0} : PollCall(AgentA, k, d)
    \/ PollScan
    \/ PollWake

SpecPoll == Init /\ [][NextPoll]_vars

----------------------------------------------------------------------------
(* mark_read given paths that lead out of the mailbox root, in a home where *)
(* a symbolic link to /etc lies below the root.                             *)

\* Paths that name a file or directory outside A2A_DIR: absolute ones, ones
\* relative to the working directory, ones that climb out of the root with
\* "..", and ones that pass through the link
EscapingPaths ==
    {Abs(PASSWD), Abs(NOTES), Abs(HOME), Abs(<<>>),
     Rel(<<UP>> \o NOTES),
     Rel(<< <<"x", ".", "m", "d">> >>),
     Abs(A2A_DIR \o <<UP, UP>> \o NOTES),
     Abs(InboxDir(AgentA) \o <<UP, UP>>),
     Abs(LN), Abs(LN \o << <<"n", ".", "m", "d">> >>),
     Abs(InboxDir(AgentA) \o <<UP>> \o << <<"l", "n">>, <<"p", "a", "s", "s", "w", "d">> >>)}

\* Paths that stay in the root without naming a message
RootPaths == {Abs(A2A_DIR), Abs(agents_file), Abs(InboxDir(AgentA)),
              Abs(LN \o <<UP>> \o A2A_DIR)}

NextPaths ==
    \/ Register(AgentA, DescX, CapsC, DirW)
    \/ \E t \in {AgentA, AgentAB} : Send(AgentA, t, SubjectHi, TRUE, BodyB, 0)
    \/ \E p \in EscapingPaths \cup RootPaths \cup MessagePaths : MarkRead(p)

SpecPaths == InitPlanted /\ [][NextPaths]_vars

----------------------------------------------------------------------------
(* Name validation on its own: every name of up to MaxLen characters over  *)
(* an alphabet with characters of each accepted class, a path separator,   *)
(* a space, a dot and a newline.                                           *)

MaxLen == 3

Alphabet == {"a", "Z", "0", "_", "-", "/", " ", ".", NL}

RECURSIVE Strings(_)
Strings(n) ==
    IF n = 0 THEN {<<>>}
    ELSE LET shorter == Strings(n - 1)
         IN  shorter \cup {Append(w, c) : w \in shorter, c \in Alphabet}

InitValidate ==
    /\ fs = FsPlain
    /\ clock = 59
    /\ poll = Idle
    /\ regs = [n \in AllNames |-> NoReg]
    /\ calls = [p \in Procs |-> NoCallInProgress]
    /\ last \in {[op |-> "name", err |-> "none", agent_name |-> w] : w \in Strings(MaxLen)}

\* _validate_agent_name(name) is called
Validate ==
    /\ last.op = "name"
    /\ last' = [op |-> "_validate_agent_name",
                err |-> IF _validate_agent_name(last.agent_name) THEN "none" ELSE "InvalidName",
                agent_name |-> last.agent_name]
    /\ UNCHANGED <<fs, clock, poll, regs, calls>>

NextValidate == Validate

SpecValidate == InitValidate /\ [][NextValidate]_vars

----------------------------------------------------------------------------
(* Two processes registering an agent each at the same time, each call in  *)
(* two steps, and one agent's removal from the registry.                   *)

NextRace ==
    \/ RegisterRead("p", AgentA, DescX, CapsC, DirW)
    \/ RegisterRead("q", AgentAB, DescX, CapsC, DirW)
    \/ \E p \in Procs : RegisterWrite(p)
    \/ Unregister(AgentA, FALSE)

SpecRace == Init /\ [][NextRace]_vars

----------------------------------------------------------------------------
(* Two senders writing to one mailbox, with subjects that differ and have  *)
(* one slug, in the same second or in different ones.                      *)

NextCollide ==
    \/ Send(AgentA, AgentA, SubjectHi, TRUE, BodyB, 0)
    \/ Send(AgentAB, AgentA, SubjectHiBang, FALSE, BodyB, 0)
    \/ \E p \in MessagePaths : MarkRead(p)
    \/ \E i \in BOOLEAN : ListInbox(AgentA, i)
    \/ Tick

SpecCollide == Init /\ [][NextCollide]_vars

----------------------------------------------------------------------------
(* Every tool that takes an agent name, called with a well-formed name,    *)
(* with a name that holds a slash and with a name that ends in a newline.  *)

InitNames ==
    /\ fs = FsPlain
    /\ clock = 59
    /\ poll = Idle
    /\ regs = [n \in AllNames \cup {NewlineName} |-> NoReg]
    /\ last = NoCall
    /\ calls = [p \in Procs |-> NoCallInProgress]

NamesTried == {AgentA, BadName, NewlineName}

\* A record under a name that ends in a newline is never found again, so
\* every registration under it adds one: registrations stop once the document
\* is longer than MaxDocLen characters.
MaxDocLen == 130

DocShort == Exists(fs, agents_file) => Len(fs[agents_file].data) <= MaxDocLen

NextNames ==
    \/ \E n \in NamesTried : DocShort /\ Register(n, DescX, CapsC, DirW)
    \/ \E n \in NamesTried : Unregister(n, TRUE)
    \/ \E t \in NamesTried : Send(AgentA, t, SubjectHi, TRUE, BodyB, 0)
    \/ Send(BadName, AgentA, SubjectHi, TRUE, BodyB, 0)
    \/ \E n \in NamesTried : PollCall(n, 1, 0)
    \/ PollScan
    \/ \E n \in NamesTried : ListInbox(n, FALSE)

SpecNames == InitNames /\ [][NextNames]_vars

----------------------------------------------------------------------------
(* Polls of a mailbox that holds several messages, sent in the same second *)
(* and in different ones, some of them read.                               *)

NextOrder ==
    \/ \E s \in {SubjectHi, SubjectGo} : Send(AgentA, AgentA, s, TRUE, BodyB, 0)
    \/ \E p \in MessagePaths : MarkRead(p)
    \/ PollCall(AgentA, 1, 0)
    \/ PollScan
    \/ Tick

SpecOrder == Init /\ [][NextOrder]_vars

----------------------------------------------------------------------------
(* Polls under the scheduling the code relies on: a scan that is due is    *)
(* made and a sleep that is over returns, whatever other calls do          *)
(* meanwhile.                                                              *)

NextSleep ==
    \/ Register(AgentA, DescX, CapsC, DirW)
    \/ Send(AgentA, AgentA, SubjectHi, TRUE, BodyB, 0)
    \/ \E p \in MessagePaths : MarkRead(p)
    \/ \E k \in 0..MaxIter, d \in {-1, 0} : PollCall(AgentA, k, d)
    \/ PollScan
    \/ PollWake

SpecSleep ==
    /\ Init /\ [][NextSleep]_vars
    /\ WF_vars(PollScan) /\ WF_vars(PollWake)

----------------------------------------------------------------------------
(* Two agents registering and unregistering in turn, with a plain          *)
(* description or with one that is a markdown heading.  A record left      *)
(* behind in part makes the document grow, so registrations stop once it   *)
(* is longer than MaxDocLen characters.                                    *)

NextFrame ==
    \/ \E n \in {AgentA, AgentAB}, d \in {DescX, DescHeading} :
          DocShort /\ Register(n, d, CapsC, DirW)
    \/ \E n \in {AgentA, AgentAB} : Unregister(n, FALSE)

SpecFrame == Init /\ [][NextFrame]_vars

----------------------------------------------------------------------------
(* Sends during which the clock may reach the next second between the two  *)
(* readings the call makes of it.                                          *)

NextClock ==
    \/ \E s \in {SubjectHi, SubjectGo}, e \in {0, 1} :
          Send(AgentA, AgentA, s, TRUE, BodyB, e)
    \/ \E p \in MessagePaths : MarkRead(p)
    \/ \E i \in BOOLEAN : ListInbox(AgentA, i)
    \/ Tick

SpecClock == Init /\ [][NextClock]_vars

----------------------------------------------------------------------------
(* Every call beside every other: a mailbox registered, removed with and   *)
(* without its messages, delivered to, marked, listed and polled, and a    *)
(* second mailbox delivered to, the clock standing still.                  *)

NextReadState ==
    \/ Register(AgentA, DescX, CapsC, DirW)
    \/ \E d \in BOOLEAN : Unregister(AgentA, d)
    \/ \E t \in {AgentA, AgentAB} : Send(AgentA, t, SubjectHi, TRUE, BodyB, 0)
    \/ \E p \in MessagePaths : MarkRead(p)
    \/ ListInbox(AgentA, FALSE)
    \/ ListAgents
    \/ PollCall(AgentA, 2, 0)
    \/ PollScan
    \/ PollWake

SpecReadState == Init /\ [][NextReadState]_vars

----------------------------------------------------------------------------
(* Properties.                                                             *)

\* The change list holds an entry for field
HasChange(changes, field) == \E i \in DOMAIN changes : changes[i][1] = field

\* A record of n in the document is followed by a blank line, the lines of
\* description d, a blank line and the capabilities line
RecordHasDescription(F, n, d) ==
    LET lines == DocLines(F)
        dl == Split(d)
        k == Len(dl)
    IN  \E i \in RecordStarts(F, n) :
            /\ i + 3 + k <= Len(lines)
            /\ lines[i + 1] = <<>>
            /\ SubSeq(lines, i + 2, i + 1 + k) = dl
            /\ lines[i + 2 + k] = <<>>
            /\ StartsWith(lines[i + 3 + k], CapsKey)

\* list_inbox(n, include_read) lists the message file named fname
Listed(F, n, include_read, fname) ==
    LET items == list_inbox(F, n, include_read).items
    IN  \E i \in DOMAIN items : items[i].name = fname

\* C1: when an agent that registered with description D1 (and was not
\* unregistered since) registers again with a description D2 # D1, the document
\* then holds exactly one record for it, that record's description is D2, and
\* the change list returned holds a description entry.
C1_ReRegistrationReplacesRecord ==
    (/\ last.op = "register_agent" /\ last.err = "none"
     /\ last.previous.known
     /\ last.previous.desc # last.description)
    => /\ Cardinality(RecordStarts(fs, last.agent_name)) = 1
       /\ RecordHasDescription(fs, last.agent_name, last.description)
       /\ HasChange(last.changes, "description")

\* C2 as stated: a send to a recipient without a registry record succeeds,
\* leaves the recipient's mailbox directory, carries the unconfirmed-recipient
\* warning, and list_inbox(to, include_read=true) lists the message.
C2_WarnsWheneverUnregistered ==
    (last.op = "send_message" /\ ~last.had_record)
    => /\ last.err = "none"
       /\ Exists(fs, InboxDir(last.to_agent))
       /\ last.warning
       /\ Listed(fs, last.to_agent, TRUE, last.path[Len(last.path)])

\* C2 as amended: a send to a recipient without a registry record succeeds,
\* leaves the recipient's mailbox directory, and list_inbox(to,
\* include_read=true) lists the message; it carries the warning exactly when
\* the recipient's mailbox directory did not exist before the call.
C2_WarnsWhenInboxMissing ==
    (last.op = "send_message" /\ ~last.had_record)
    => /\ last.err = "none"
       /\ Exists(fs, InboxDir(last.to_agent))
       /\ fs[InboxDir(last.to_agent)].kind = "dir"
       /\ last.warning <=> ~last.had_inbox
       /\ Listed(fs, last.to_agent, TRUE, last.path[Len(last.path)])

\* A send to an unregistered recipient created the mailbox and warned
C2_Witness ==
    /\ last.op = "send_message" /\ ~last.had_record /\ ~last.had_inbox
    /\ last.warning
    /\ Listed(fs, last.to_agent, TRUE, last.path[Len(last.path)])

\* C3: mark_read on an existing message file of a mailbox succeeds, after it
\* list_inbox without include_read does not list the message, and when the
\* message was already marked the call changes nothing in the filesystem.
C3_MarkReadIdempotent ==
    (last.op = "mark_read" /\ last.was_message)
    => LET p == last.message_path.parts
       IN  /\ last.err = "none"
           /\ HasMarker(fs, p)
           /\ ~Listed(fs, p[Len(p) - 1], FALSE, p[Len(p)])
           /\ Listed(fs, p[Len(p) - 1], TRUE, p[Len(p)])
           /\ last.was_marked => ~last.fs_changed

\* mark_read was called on a message that was already marked
C3_Witness ==
    /\ last.op = "mark_read" /\ last.was_message /\ last.was_marked
    /\ last.err = "none"

\* C6: unregister_agent(n, delete_inbox=true) of an agent with a record removes
\* the record and everything at and below n's mailbox directory; from then on,
\* until something is registered or sent under n, list_inbox(n) fails with
\* InboxNotFound.
C6_UnregisterDeletesInbox ==
    /\ (last.op = "unregister_agent" /\ last.existed /\ last.delete_inbox)
       => /\ last.err = "none"
          /\ ~HasRecord(fs, last.agent_name)
          /\ \A p \in DOMAIN fs : ~IsUnder(p, InboxDir(last.agent_name))
    /\ \A n \in AllNames : regs[n].inbox_deleted
          => \A i \in BOOLEAN : list_inbox(fs, n, i).err = "InboxNotFound"
    /\ (last.op = "list_inbox" /\ regs[last.agent_name].inbox_deleted)
       => last.err = "InboxNotFound"

\* list_inbox was called for an agent unregistered together with its mailbox
C6_Witness ==
    /\ last.op = "list_inbox"
    /\ regs[last.agent_name].inbox_deleted
    /\ last.err = "InboxNotFound"

\* C8: unregister_agent(n) for a name without a record fails with
\* NotRegistered and changes nothing in the filesystem.
C8_UnregisterUnknownFails ==
    (last.op = "unregister_agent" /\ ~last.existed)
    => /\ last.err = "NotRegistered"
       /\ ~last.fs_changed

\* C9: register_agent reports an update exactly when a record named n existed
\* before the call, and a fresh registration carries an empty change list.
C9_UpdateIffRecordExisted ==
    (last.op = "register_agent" /\ last.err = "none")
    => /\ (last.kind = "Updated") <=> last.existed
       /\ ~last.existed => last.changes = <<>>

\* The fields the last registration supplied and those the one before it did
Supplied(field) ==
    CASE field = "description" -> last.description
      [] field = "capabilities" -> last.capabilities
      [] field = "working-dir" -> last.working_dir

Previous(field) ==
    CASE field = "description" -> last.previous.desc
      [] field = "capabilities" -> last.previous.caps
      [] field = "working-dir" -> last.previous.dir

\* C10: on re-registration the change list holds an entry for a field exactly
\* when the supplied value differs from the previously supplied one, and the
\* entry shows the previous value as old and the supplied one as new.
C10_ChangeListIsTheDiff ==
    (/\ last.op = "register_agent" /\ last.err = "none"
     /\ last.existed /\ last.previous.known)
    => \A f \in {"description", "capabilities", "working-dir"} :
          /\ HasChange(last.changes, f) <=> Supplied(f) # Previous(f)
          /\ \A i \in DOMAIN last.changes :
                last.changes[i][1] = f
                => last.changes[i] = <<f, Previous(f), Supplied(f)>>

\* C4: a poll_inbox call that passes its checks returns not-found with
\* max_iterations attempts when none of its max_iterations scans sees an unread
\* message, and otherwise returns, from the first scan j that sees one, an
\* unread message of the mailbox with attempt number j.
C4_PollOutcome ==
    /\ \A j \in DOMAIN poll.scans : ~poll.scans[j]
    /\ (last.op = "poll_inbox" /\ last.err = "none")
       => LET n == Len(last.scans)
          IN  /\ 1 <= n /\ n <= last.max_iterations
              /\ \A j \in 1..(n - 1) : ~last.scans[j]
              /\ last.found <=> last.scans[n]
              /\ last.attempts = n
              /\ ~last.found => n = last.max_iterations
              /\ last.found => /\ last.path \in UnreadMessages(fs, last.agent_name)
                               /\ last.content = fs[last.path].data

\* A poll found on its second attempt a message that its first scan did not see
C4_Witness ==
    /\ last.op = "poll_inbox" /\ last.err = "none"
    /\ last.found /\ last.attempts = 2
    /\ last.scans = <<FALSE, TRUE>>

\* C5: mark_read given a path that resolves to a location outside the mailbox
\* root (an absolute path elsewhere, a relative path, a path climbing out with
\* "..", a path through a symbolic link that lies in the root and points out of
\* it) is rejected with PathEscape, and no file or directory is created,
\* changed or removed.
C5_EscapingPathRejected ==
    (last.op = "mark_read" /\ last.message_path \in EscapingPaths)
        => /\ last.err = "PathEscape"
           /\ ~last.fs_changed
           /\ ~IsUnder(last.path, A2A_DIR)

\* mark_read has been given the path of an existing markdown file outside the
\* root by way of the link in the root, while the mailboxes held a message
C5_Witness ==
    /\ last.op = "mark_read"
    /\ last.message_path = Abs(LN \o << <<"n", ".", "m", "d">> >>)
    /\ last.path = NOTES
    /\ Messages(fs, AgentA) # {}

\* C7: validation of an agent name succeeds if and only if the name is
\* non-empty and each of its characters, the last one included, is an ASCII
\* letter, a digit, an underscore or a hyphen.
C7_ValidIffAllowedCharacters ==
    last.op = "_validate_agent_name"
        => (last.err = "none"
              <=> /\ last.agent_name # <<>>
                  /\ \A i \in DOMAIN last.agent_name :
                        last.agent_name[i] \in Range(LowerCase) \cup Range(UpperCase)
                                               \cup Range(Digits) \cup {"_", "-"})

\* C11: when a register_agent call writes the document after another call,
\* for a different agent that had no record when the first read the document,
\* wrote in between, both calls have returned success and the document holds
\* the record of the call that wrote last and none of the other agent.
C11_LaterWriteWins ==
    (last.op = "register_agent" /\ "overtaken" \in DOMAIN last)
    => \A m \in (last.overtaken \ last.others) \ {last.agent_name} :
          /\ last.err = "none"
          /\ HasRecord(fs, last.agent_name)
          /\ ~HasRecord(fs, m)

\* Two calls for different agents have both returned, each having read the
\* document before the other wrote, and the record of one is lost
C11_Witness ==
    /\ last.op = "register_agent" /\ "overtaken" \in DOMAIN last
    /\ last.err = "none"
    /\ \E m \in (last.overtaken \ last.others) \ {last.agent_name} :
          /\ regs[m].known
          /\ ~HasRecord(fs, m)
          /\ HasRecord(fs, last.agent_name)
    /\ \A p \in Procs : calls[p].pc = "idle"

\* The message file at p carries these from, subject and body fields
Carries(F, p, from_agent, subject, body) ==
    /\ Contains(F[p].data, <<NL, "f", "r", "o", "m", ":", " ">> \o from_agent \o <<NL>>)
    /\ Contains(F[p].data, <<NL, "s", "u", "b", "j", "e", "c", "t", ":", " ">> \o subject \o <<NL>>)
    /\ EndsWith(F[p].data, <<NL>> \o body \o <<NL>>)

\* C12: a send_message that targets the file of an earlier message to the same
\* recipient (same second, same slug) succeeds, the mailbox holds as many
\* messages as before, the file carries the later call's message, and the
\* earlier content, if it differed, is in no message of the mailbox.
C12_SameFileLastWriterWins ==
    (last.op = "send_message" /\ last.err = "none" /\ last.had_file)
    => /\ Cardinality(Messages(fs, last.to_agent)) = last.count_before
       /\ Carries(fs, last.path, last.from_agent, last.subject, last.body)
       /\ last.old_content # fs[last.path].data
          => \A p \in Messages(fs, last.to_agent) : fs[p].data # last.old_content

\* A send has replaced the different message an earlier send of the same
\* second had written
C12_Witness ==
    /\ last.op = "send_message" /\ last.err = "none" /\ last.had_file
    /\ last.old_content # fs[last.path].data
    /\ Cardinality(Messages(fs, last.to_agent)) = 1

\* C13: poll_inbox for a well-formed name fails with InvalidArgument when
\* max_iterations < 1 or delay_seconds < 0, and otherwise with InboxNotFound
\* when the agent's mailbox directory does not exist (the checks are made in
\* this order, so bad arguments are reported whether or not the mailbox
\* exists); the failing call scans nothing, sleeps never, and the mailbox
\* directory is neither created nor removed.
C13_PollPreconditions ==
    last.op = "poll_inbox"
    => /\ (last.max_iterations < 1 \/ last.delay_seconds < 0)
          => last.err = "InvalidArgument"
       /\ (last.max_iterations >= 1 /\ last.delay_seconds >= 0 /\ last.err # "none")
          => last.err = "InboxNotFound" /\ ~last.had_inbox
       /\ last.err = "none" => Exists(fs, InboxDir(last.agent_name))
       /\ last.err # "none"
          => /\ last.scans = <<>> /\ last.sleeps = 0 /\ ~last.found
             /\ last.had_inbox <=> Exists(fs, InboxDir(last.agent_name))

\* poll_inbox was refused for its arguments although an unread message waited
\* in the mailbox
C13_Witness ==
    /\ last.op = "poll_inbox" /\ last.err = "InvalidArgument"
    /\ UnreadMessages(fs, last.agent_name) # {}

\* The name is empty or holds a character that is no ASCII letter, digit,
\* underscore or hyphen
ViolatesGrammar(name) ==
    \/ name = <<>>
    \/ \E i \in DOMAIN name :
          name[i] \notin Range(LowerCase) \cup Range(UpperCase) \cup Range(Digits) \cup {"_", "-"}

\* C14: register_agent, unregister_agent, poll_inbox and list_inbox called with
\* a name that violates the grammar, and send_message called with a from or a
\* to that does, fail with InvalidName and change nothing in the filesystem.
C14_InvalidNameBeforeMutation ==
    /\ (/\ last.op \in {"register_agent", "unregister_agent", "poll_inbox", "list_inbox"}
        /\ ViolatesGrammar(last.agent_name))
       => /\ last.err = "InvalidName"
          /\ "fs_changed" \in DOMAIN last => ~last.fs_changed
    /\ (/\ last.op = "send_message"
        /\ ViolatesGrammar(last.from_agent) \/ ViolatesGrammar(last.to_agent))
       => /\ last.err = "InvalidName"
          /\ ~last.fs_changed

\* C14 for the names the pattern rejects, which leaves out those that end in a
\* newline: what the code does guarantee
C14_RejectedNameBeforeMutation ==
    /\ (/\ last.op \in {"register_agent", "unregister_agent", "poll_inbox", "list_inbox"}
        /\ ~AGENT_NAME_PATTERN(last.agent_name))
       => /\ last.err = "InvalidName"
          /\ "fs_changed" \in DOMAIN last => ~last.fs_changed
    /\ (/\ last.op = "send_message"
        /\ ~AGENT_NAME_PATTERN(last.from_agent) \/ ~AGENT_NAME_PATTERN(last.to_agent))
       => /\ last.err = "InvalidName"
          /\ ~last.fs_changed

\* The second in which the message at p was sent, as its file name tells it
SecondOf(p) ==
    CHOOSE c \in 0..(MaxClock + 1) : StartsWith(p[Len(p)], _get_filename_timestamp(c))

\* C15: the message a poll_inbox returns is unread and no other unread message
\* of the mailbox has a smaller file name; none of the unread messages was sent
\* in an earlier second.
C15_ReturnsSmallestUnread ==
    (last.op = "poll_inbox" /\ last.err = "none" /\ last.found)
    => /\ last.path \in UnreadMessages(fs, last.agent_name)
       /\ \A p \in UnreadMessages(fs, last.agent_name) \ {last.path} :
             /\ StrLess(last.path[Len(last.path)], p[Len(p)])
             /\ SecondOf(last.path) <= SecondOf(p)

\* A poll returned a message while a later unread one and an earlier read one
\* were in the mailbox
C15_Witness ==
    /\ last.op = "poll_inbox" /\ last.err = "none" /\ last.found
    /\ \E p \in UnreadMessages(fs, last.agent_name) : SecondOf(last.path) < SecondOf(p)
    /\ \E p \in Messages(fs, last.agent_name) :
          HasMarker(fs, p) /\ StrLess(p[Len(p)], last.path[Len(last.path)])

\* The scans and sleeps of a poll_inbox call, in progress or ended: a sleep
\* follows each scan that found nothing and was not the last one, and nothing
\* else
PollBounds ==
    /\ poll.pc = "scan"
       => /\ 1 <= poll.i /\ poll.i <= poll.max_iterations
          /\ Len(poll.scans) = poll.i - 1 /\ poll.sleeps = poll.i - 1
    /\ poll.pc = "sleep"
       => /\ 1 <= poll.i /\ poll.i < poll.max_iterations
          /\ Len(poll.scans) = poll.i /\ poll.sleeps = poll.i
    /\ \A j \in DOMAIN poll.scans : ~poll.scans[j]
    /\ (last.op = "poll_inbox" /\ last.err = "none")
       => /\ 1 <= Len(last.scans) /\ Len(last.scans) <= last.max_iterations
          /\ last.sleeps = Len(last.scans) - 1
          /\ last.sleeps <= last.max_iterations - 1
          /\ \A j \in 1..(Len(last.scans) - 1) : ~last.scans[j]
          /\ ~last.found => last.sleeps = last.max_iterations - 1

\* C16: a poll_inbox call that passes its checks makes at most max_iterations
\* scans and max_iterations - 1 sleeps, sleeps only after a scan that found no
\* unread message and was not the last attempt, sleeps exactly
\* max_iterations - 1 times when it finds nothing, and ends.
C16_PollTerminates ==
    /\ []PollBounds
    /\ (poll.pc # "idle") ~> (poll.pc = "idle")

\* A poll ended without a message after as many scans as it was allowed, with
\* one sleep fewer
C16_Witness ==
    /\ last.op = "poll_inbox" /\ last.err = "none" /\ ~last.found
    /\ last.max_iterations = 2
    /\ Len(last.scans) = 2 /\ last.sleeps = 1

\* The messages of n's mailbox that list_inbox(n, include_read) is to list
Wanted(F, n, include_read) == {p \in Messages(F, n) : include_read \/ ~HasMarker(F, p)}

\* C17: list_inbox on an existing mailbox lists exactly the messages of the
\* mailbox, without the read ones unless include_read, each once, in ascending
\* order of their names, each marked read exactly if its marker exists; it
\* returns a placeholder and no list exactly if no message is to be listed.
C17_ListInboxIsTheMailbox ==
    (last.op = "list_inbox" /\ last.err = "none")
    => LET want == Wanted(fs, last.agent_name, last.include_read)
           items == last.items
       IN  /\ Len(items) = Cardinality(want)
           /\ {items[i].name : i \in DOMAIN items} = {p[Len(p)] : p \in want}
           /\ \A i \in DOMAIN items : \A j \in DOMAIN items :
                 i < j => StrLess(items[i].name, items[j].name)
           /\ \A i \in DOMAIN items :
                 items[i].read <=> HasMarker(fs, InboxDir(last.agent_name) \o <<items[i].name>>)
           /\ (last.placeholder # "none") <=> (want = {})
           /\ (last.placeholder = "No unread messages")
                 => ~last.include_read /\ Messages(fs, last.agent_name) # {}

\* list_inbox with include_read listed a read message and an unread one
C17_Witness ==
    /\ last.op = "list_inbox" /\ last.err = "none" /\ last.include_read
    /\ Len(last.items) >= 2
    /\ \E i \in DOMAIN last.items : last.items[i].read
    /\ \E i \in DOMAIN last.items : ~last.items[i].read

\* The lines of the record of m in a document: from the line after its first
\* header line to the line before the next record-start marker, the blank ones
\* left out
RecordLines(lines, m) ==
    LET starts == {i \in DOMAIN lines : lines[i] = AgentHeader(m)}
        i == CHOOSE k \in starts : \A j \in starts : k <= j
        nexts == {k \in DOMAIN lines : k > i /\ StartsWith(lines[k], H2)}
        end == IF nexts = {} THEN Len(lines)
               ELSE (CHOOSE k \in nexts : \A j \in nexts : k <= j) - 1
        NotBlank(l) == l # <<>>
    IN  IF starts = {} THEN <<>> ELSE SelectSeq(SubSeq(lines, i + 1, end), NotBlank)

\* The header lines of the agents in S in a document, in order
HeadersOf(lines, S) ==
    LET IsHeader(l) == \E m \in S : l = AgentHeader(m)
    IN  SelectSeq(lines, IsHeader)

\* C18: a successful register_agent(n) or unregister_agent(n) leaves the record
\* of every other registered agent with its lines, leaves the other records in
\* their order, and after register_agent(n) no record of a registered agent
\* follows n's.
C18_OtherRecordsKept ==
    (last.op \in {"register_agent", "unregister_agent"} /\ last.err = "none")
    => LET before == last.doc_before
           after == DocLines(fs)
           others == {m \in {AgentA, AgentAB} \ {last.agent_name} : regs[m].known}
       IN  /\ \A m \in others : RecordLines(after, m) = RecordLines(before, m)
           /\ HeadersOf(after, others) = HeadersOf(before, others)
           /\ last.op = "register_agent"
              => LET heads == {k \in DOMAIN after :
                                  \E m \in others \cup {last.agent_name} :
                                      after[k] = AgentHeader(m)}
                 IN  /\ heads # {}
                     /\ after[CHOOSE k \in heads : \A j \in heads : j <= k]
                           = AgentHeader(last.agent_name)

\* C18 while no registered agent's description starts like a record: what the
\* code does guarantee
C18_OtherRecordsKeptPlain ==
    (/\ \A n \in AllNames : regs[n].desc # DescHeading
     /\ "description" \in DOMAIN last => last.description # DescHeading)
    => C18_OtherRecordsKept

\* C19: the timestamp field of the message a send_message has written and the
\* timestamp at the start of its file name denote the same second.
C19_OneSecondInFieldAndName ==
    (last.op = "send_message" /\ last.err = "none")
    => \E c \in 0..(MaxClock + 1) :
          /\ Contains(fs[last.path].data,
                      <<NL, "t", "i", "m", "e", "s", "t", "a", "m", "p", ":", " ">>
                          \o _get_timestamp(c) \o <<NL>>)
          /\ StartsWith(last.path[Len(last.path)], _get_filename_timestamp(c) \o <<"-">>)

\* C20: after a successful send_message, and until another call changes the
\* mailbox, the message it wrote has no read marker, list_inbox(to) without
\* include_read lists it, and a scan of poll_inbox(to) would return a message.
C20_DeliveredMessageIsUnread ==
    (last.op = "send_message" /\ last.err = "none")
    => /\ ~HasMarker(fs, last.path)
       /\ Listed(fs, last.to_agent, FALSE, last.path[Len(last.path)])
       /\ FirstUnread(fs, Sorted(GlobMd(fs, InboxDir(last.to_agent)))) # <<>>

\* C20 for a send that writes a file that was not there, or was there
\* unmarked: what the code does guarantee
C20_NewFileIsUnread ==
    (last.op = "send_message" /\ last.err = "none" /\ ~last.had_marker)
    => /\ ~HasMarker(fs, last.path)
       /\ Listed(fs, last.to_agent, FALSE, last.path[Len(last.path)])
       /\ FirstUnread(fs, Sorted(GlobMd(fs, InboxDir(last.to_agent)))) # <<>>

\* The read markers among the files
SeenFiles(F) == {p \in DOMAIN F : Len(p) > 0 /\ EndsWith(p[Len(p)], MD_SEEN)}

\* The messages of every mailbox but that of agent n
MessagesElsewhere(F, n) ==
    {p \in DOMAIN F : /\ Len(p) = Len(A2A_DIR) + 2
                      /\ SubSeq(p, 1, Len(A2A_DIR)) = A2A_DIR
                      /\ p[Len(p) - 1] # n
                      /\ F[p].kind = "file" /\ EndsWith(p[Len(p)], MD)}

\* Every message of S is still there after the step, read if and only if it was
SameReadState(S) ==
    \A p \in S : /\ p \in DOMAIN fs' /\ fs'[p].kind = "file"
                 /\ HasMarker(fs', p) <=> HasMarker(fs, p)

\* C21: a read marker disappears only in a successful unregister_agent with
\* delete_inbox=true, and its message disappears with it; a read marker
\* appears only in a successful mark_read, beside the path that call resolved;
\* register_agent, unregister_agent with delete_inbox=false, poll_inbox and
\* list_inbox leave every message in place with its read state, and
\* send_message does so for the messages of every mailbox but the recipient's.
C21_ReadStateOnlyMovesToRead ==
    [][/\ \A s \in SeenFiles(fs) \ SeenFiles(fs') :
              /\ last'.op = "unregister_agent" /\ last'.err = "none" /\ last'.delete_inbox
              /\ IsUnder(s, InboxDir(last'.agent_name))
              /\ \A p \in Messages(fs, last'.agent_name) : p \notin DOMAIN fs'
       /\ \A s \in SeenFiles(fs') \ SeenFiles(fs) :
              /\ last'.op = "mark_read" /\ last'.err = "none"
              /\ s = WithSuffix(last'.path, MD_SEEN)
              /\ Exists(fs, last'.path)
       /\ (last' = last) => SameReadState(MessagesElsewhere(fs, <<>>))
       /\ (/\ last' # last
           /\ \/ last'.op \in {"register_agent", "poll_inbox", "list_inbox", "list_agents"}
              \/ last'.op = "unregister_agent" /\ ~last'.delete_inbox)
          => /\ SameReadState(MessagesElsewhere(fs, <<>>))
             /\ SeenFiles(fs') = SeenFiles(fs)
       /\ (last' # last /\ last'.op = "send_message")
          => SameReadState(MessagesElsewhere(fs, last'.to_agent))
      ]_vars

\* A record was removed without its mailbox, or a message delivered to the
\* other mailbox, while a message of AgentA carried its read marker
C21_Witness ==
    /\ \E p \in Messages(fs, AgentA) : HasMarker(fs, p)
    /\ \/ /\ last.op = "unregister_agent" /\ last.err = "none"
          /\ ~last.delete_inbox /\ last.had_marker
       \/ /\ last.op = "send_message" /\ last.err = "none"
          /\ last.to_agent = AgentAB /\ last.fs_changed

\* C22: poll_inbox, list_inbox and list_agents leave every file, directory and
\* marker as it was, at their return and at every step of a poll; and a
\* poll_inbox that ends next after a poll_inbox of the same mailbox that
\* returned a message, no other call ending in between, returns that message.
C22_ReadOnlyCalls ==
    /\ [][/\ last'.op \in {"poll_inbox", "list_inbox", "list_agents"} => fs' = fs
          /\ poll' # poll => fs' = fs
         ]_vars
    /\ []((last.op = "poll_inbox" /\ last.err = "none" /\ last.previous # <<>>)
          => /\ last.found
             /\ last.path = last.previous
             /\ last.path \in UnreadMessages(fs, last.agent_name))

\* A poll returned the message that the poll before it had returned
C22_Witness ==
    /\ last.op = "poll_inbox" /\ last.err = "none"
    /\ last.found
    /\ last.previous = last.path

\* The names a header line of the document may carry in the runs explored
NamesRecorded == AllNames \cup {NewlineName}

\* C23: in every state reached by calls that do not overlap, every agent with
\* a record in the registry document has a mailbox directory.
C23_RecordedAgentHasMailbox ==
    \A n \in NamesRecorded :
        HasRecord(fs, n) => (Exists(fs, InboxDir(n)) /\ fs[InboxDir(n)].kind = "dir")

\* C23 for the agents that registered and were not unregistered since: what
\* the code does guarantee
C23_RegisteredAgentHasMailbox ==
    \A n \in DOMAIN regs :
        regs[n].known => (Exists(fs, InboxDir(n)) /\ fs[InboxDir(n)].kind = "dir")

====
